---- MODULE Spec2Model ----
(***************************************************************************)
(* Model of the Heathkit ID-5001 weather station driver (src/id5001.py).   *)
(*                                                                         *)
(* Text is a sequence of one-character strings.  An optional value         *)
(* (Python None or a number) is a sequence of length 0 or 1.  Physical     *)
(* quantities are kept as exact integers in a fixed sub-unit:              *)
(*   temperature  tenths of a degree Fahrenheit                            *)
(*   wind speed   millionths of a mile per hour                            *)
(*   barometer    millionths of an inch of mercury                         *)
(*   rain         1/25400 of an inch (so inches/100 and cm/100 are exact)  *)
(***************************************************************************)
EXTENDS Integers, Sequences, FiniteSets, TLC

\* ------------------------------------------------------------------------
\* Optional values and outcomes of a call
\* ------------------------------------------------------------------------
None == <<>>
Some(v) == <<v>>
IsNone(x) == x = <<>>
Val(x) == x[1]

\* outcome of a call: a returned value or a raised exception
Ret(v) == [exc |-> "none", val |-> v]
Raise(e) == [exc |-> e, val |-> None]

\* ------------------------------------------------------------------------
\* Python text primitives
\* ------------------------------------------------------------------------
CR == "\r"
Whitespace == {" ", "\r", "\n", "\t"}
Digits == {"0", "1", "2", "3", "4", "5", "6", "7", "8", "9"}

DigitVal(c) ==
    CASE c = "0" -> 0 [] c = "1" -> 1 [] c = "2" -> 2 [] c = "3" -> 3
      [] c = "4" -> 4 [] c = "5" -> 5 [] c = "6" -> 6 [] c = "7" -> 7
      [] c = "8" -> 8 [] c = "9" -> 9

Min(a, b) == IF a < b THEN a ELSE b

\* s[a:b] with 0 <= a, b: the characters at 0-based offsets a .. b-1 that exist
Slice(s, a, b) == SubSeq(s, a + 1, Min(b, Len(s)))

\* s[a:]
SliceFrom(s, a) == SubSeq(s, a + 1, Len(s))

\* s[-1] of a non-empty text
LastCh(s) == s[Len(s)]

RECURSIVE LStrip(_)
LStrip(s) == IF s # <<>> /\ Head(s) \in Whitespace THEN LStrip(Tail(s)) ELSE s

RECURSIVE RStrip(_)
RStrip(s) ==
    IF s # <<>> /\ s[Len(s)] \in Whitespace THEN RStrip(SubSeq(s, 1, Len(s) - 1)) ELSE s

\* Strip, of the left end only
Strip_leftOnly(s) == LStrip(s)

\* str.strip()
Strip(s) == LStrip(RStrip(s))

RECURSIVE DigitsValue(_)
DigitsValue(s) ==
    IF s = <<>> THEN 0 ELSE 10 * DigitsValue(SubSeq(s, 1, Len(s) - 1)) + DigitVal(s[Len(s)])

AllDigits(s) == s # <<>> /\ \A i \in 1..Len(s) : s[i] \in Digits

\* int(text): surrounding whitespace is ignored, one sign is allowed, the rest
\* must be a non-empty run of digits; anything else is a ValueError (None here).
\* Digit-group underscores and non-ASCII digits do not occur in the replies
\* modelled and are left out.
PyInt(s) ==
    LET t == Strip(s)
        signed == t # <<>> /\ t[1] \in {"+", "-"}
        d == IF signed THEN Tail(t) ELSE t
    IN  IF ~AllDigits(d) THEN None
        ELSE IF signed /\ t[1] = "-" THEN Some(0 - DigitsValue(d))
        ELSE Some(DigitsValue(d))

\* ------------------------------------------------------------------------
\* Unit conversions (weewx.units, imported at src/id5001.py:26)
\* ------------------------------------------------------------------------
MILE_PER_KNOT_E6 == 1150780
KPH_TO_MPH_E6 == 621371
MPH_E6 == 1000000
INHG_PER_MBAR_E6 == 29530
INHG_PER_CENTI_E6 == 10000
RAIN_PER_CENTI_INCH == 254
RAIN_PER_CENTI_CM == 100

\* CtoF(x) = x * 1.8 + 32, in tenths of a degree
CtoF(c) == 18 * c + 320
Fahrenheit(f) == 10 * f

\* ------------------------------------------------------------------------
\* Field decoders
\* ------------------------------------------------------------------------
\* the s[0] and s[-1] tests sit outside the try block: an empty text
\* raises IndexError out of the decoder
_decodeTemperature(s) ==
    IF s = <<>> THEN Raise("IndexError")
    ELSE LET s1 == IF s[1] = "c" THEN SliceFrom(s, 1) ELSE s
         IN  IF s1 = <<>> THEN Raise("IndexError")
             ELSE LET isCelsius == LastCh(s1) = "C"
                      temp == PyInt(Slice(s1, 1, 4))
                  IN  IF IsNone(temp) THEN Ret(None)
                      ELSE IF isCelsius THEN Ret(Some(CtoF(Val(temp))))
                      ELSE Ret(Some(Fahrenheit(Val(temp))))

_decodeHumidity(s) == Ret(PyInt(Slice(s, 1, 3)))

\* the leading '<' / '>' test sits outside the try block
_decodeWindSpeed(s) ==
    IF s = <<>> THEN Raise("IndexError")
    ELSE LET s1 == IF s[1] \in {"<", ">"} THEN SliceFrom(s, 1) ELSE s
         IN  IF Len(s1) < 5 THEN Ret(None)
             ELSE LET unit == s1[5]
                      windSpeed == PyInt(Slice(s1, 1, 4))
                  IN  IF IsNone(windSpeed) THEN Ret(None)
                      ELSE IF unit = "K" THEN Ret(Some(Val(windSpeed) * MILE_PER_KNOT_E6))
                      ELSE IF unit = "L" THEN Ret(Some(Val(windSpeed) * KPH_TO_MPH_E6))
                      ELSE Ret(Some(Val(windSpeed) * MPH_E6))

_decodeWindDirection(s) ==
    IF s = <<>> THEN Raise("IndexError")
    ELSE LET s1 == IF s[1] \in {"<", ">"} THEN SliceFrom(s, 1) ELSE s
         IN  Ret(PyInt(Slice(s1, 5, 8)))

\* _decodeBarometer, without the discarding of a zero
_decodeBarometer_keepsZero(s) ==
    IF s = <<>> THEN Ret(None)
    ELSE LET isMillibars == LastCh(s) = "M"
             baro == PyInt(Slice(s, 1, 5))
         IN  IF IsNone(baro) THEN Ret(None)
             ELSE IF isMillibars THEN Ret(Some(Val(baro) * INHG_PER_MBAR_E6))
             ELSE Ret(Some(Val(baro) * INHG_PER_CENTI_E6))

_decodeBarometer(s) ==
    IF s = <<>> THEN Ret(None)
    ELSE LET isMillibars == LastCh(s) = "M"
             baro == PyInt(Slice(s, 1, 5))
         IN  IF IsNone(baro) THEN Ret(None)
             ELSE LET v == IF isMillibars THEN Val(baro) * INHG_PER_MBAR_E6
                                          ELSE Val(baro) * INHG_PER_CENTI_E6
                  IN  IF v = 0 THEN Ret(None) ELSE Ret(Some(v))

_decodeRain(s) ==
    IF Len(s) < 2 THEN Ret(None)
    ELSE LET s1 == IF s[2] = "R" THEN SliceFrom(s, 1) ELSE s
         IN  IF LastCh(s1) = "C"
             THEN LET n == PyInt(Slice(s1, 1, 7))
                  IN  IF IsNone(n) THEN Ret(None) ELSE Ret(Some(Val(n) * RAIN_PER_CENTI_CM))
             ELSE LET n == PyInt(Slice(s1, 1, 6))
                  IN  IF IsNone(n) THEN Ret(None) ELSE Ret(Some(Val(n) * RAIN_PER_CENTI_INCH))

\* ------------------------------------------------------------------------
\* Bounds of the model
\* ------------------------------------------------------------------------
\* largest max_tries the driver is configured with
MaxTries == 2
\* deviant (timed-out or malformed) reply lines the instrument produces
\* within one get_readings call
MaxBad == 1
\* number of commands of a connection kept in the connection log
MaxLog == 5
\* number of commands sent on the connection in the byte-level model
MaxExchanges == 2
\* number of close() and closePort() calls on one connection
MaxCloseCalls == 3
\* largest loop_interval, in ticks of the clock
MaxInterval == 3
\* the time at which the clock of the timing model stops
MaxTime == 8

\* ------------------------------------------------------------------------
\* Command vocabulary
\* ------------------------------------------------------------------------
\* Station.open with auto-transmit switched off before the linefeed setting
OpenCmds_swapped == <<"EC", "XCA", "LS", "CWGH", "RR">>

\* Station.open, in order: the four initialization commands, then the
\* priming read of the rain total
OpenCmds == <<"EC", "LS", "XCA", "CWGH", "RR">>

\* get_readings with the barometer read before the gust accumulator is cleared
ReadCmds_swapped ==
    <<"RTI", "RTO", "RHI", "RHO", "RWA", "RWGH", "RB", "CWGH", "RR", "RRR", "RWCA">>

\* Station.get_readings, in order
ReadCmds == <<"RTI", "RTO", "RHI", "RHO", "RWA", "RWGH", "CWGH", "RB", "RR", "RRR", "RWCA">>

\* the commands of get_readings whose reply is decoded into the snapshot
FieldCmds == {"RTI", "RTO", "RHI", "RHO", "RWA", "RWGH", "RB", "RR", "RRR", "RWCA"}

\* the snapshot keys a command's reply is decoded into
KeysOf(cmd) ==
    CASE cmd = "RTI" -> {"inTemp"}
      [] cmd = "RTO" -> {"outTemp"}
      [] cmd = "RHI" -> {"inHumidity"}
      [] cmd = "RHO" -> {"outHumidity"}
      [] cmd = "RWA" -> {"windSpeed", "windDir"}
      [] cmd = "RWGH" -> {"windGust", "windGustDir"}
      [] cmd = "RB" -> {"barometer"}
      [] cmd = "RR" -> {"rain"}
      [] cmd = "RRR" -> {"rain_rate"}
      [] cmd = "RWCA" -> {"windhcill"}
      [] OTHER -> {}

\* ------------------------------------------------------------------------
\* The instrument: the lines it may put on the wire in reply to a command
\* ------------------------------------------------------------------------
Line(body) == body \o <<CR>>

\* replies of the documented wire shape
Nominal(cmd) ==
    CASE cmd = "RTI" -> {Line(<<"t", "0", "7", "2">>)}
      [] cmd = "RTO" -> {Line(<<"T", "0", "2", "2", "C">>)}
      [] cmd = "RHI" -> {Line(<<"h", "4", "5">>)}
      [] cmd = "RHO" -> {Line(<<"H", "6", "0">>)}
      [] cmd = "RWA" -> {Line(<<"w", "0", "1", "0", "M", "2", "7", "0", "D">>)}
      [] cmd = "RWGH" -> {Line(<<"<", "W", "0", "1", "5", "K", "1", "8", "0", "D">>)}
      [] cmd = "RB" -> {Line(<<"B", "2", "9", "9", "2">>)}
      [] cmd = "RR" -> {Line(<<"R", "0", "0", "4", "8", "0">>),
                        Line(<<"R", "0", "0", "5", "2", "5">>)}
      [] cmd = "RRR" -> {Line(<<"R", "R", "0", "0", "0", "1", "0">>)}
      [] cmd = "RWCA" -> {Line(<<"c", "T", "0", "2", "0">>)}
      [] cmd = "RT" -> {Line(<<"2", "3", "5", "9", "5", "8">>)}
      [] cmd = "RD" -> {Line(<<"9", "9", "1", "2", "3", "1">>),
                        Line(<<"1", "0", "0", "1", "0", "2">>)}
      [] OTHER -> {Line(<<"O", "K">>)}

\* a read that times out with zero bytes received
TimedOut == <<>>

\* replies that deviate from the wire shape: wrong length or a non-digit
Malformed(cmd) ==
    CASE cmd = "RTI" -> {Line(<<"t", "X", "7", "2">>)}
      [] cmd = "RTO" -> {Line(<<"T", "0", "2", "2", "5">>)}
      [] cmd = "RHI" -> {Line(<<"h", "4">>)}
      [] cmd = "RHO" -> {Line(<<"H", "X", "0">>)}
      [] cmd = "RWA" -> {Line(<<"w", "0", "1", "0", "M", "2", "7">>)}
      [] cmd = "RWGH" -> {Line(<<"<", "W", "0", "1", "X", "K", "1", "8", "0", "D">>)}
      [] cmd = "RB" -> {Line(<<"B", "2", "9", "9">>)}
      [] cmd = "RR" -> {Line(<<"R", "0", "X", "4", "8", "0">>)}
      [] cmd = "RRR" -> {Line(<<"R", "R", "0", "0", "X", "1", "0">>)}
      [] cmd = "RWCA" -> {Line(<<"c", "T", "X", "2", "0">>)}
      [] cmd = "RT" -> {Line(<<"2", "3", ":", "5", "9">>)}
      [] cmd = "RD" -> {Line(<<"9", "9", "/", "1", "2">>)}
      [] OTHER -> {}

Deviant(cmd) == {TimedOut} \cup Malformed(cmd)

\* ------------------------------------------------------------------------
\* State
\* ------------------------------------------------------------------------
VARIABLES
    serial_port,  \* Station.serial_port: "None" or "open"
    last_rain,    \* Station.last_rain: None or the last decoded rain total
    op,           \* the method the caller is in ("idle" between calls)
    pc,           \* which command of the method's sequence comes next
    max_tries,    \* get_readings: parameter
    ntries,       \* get_readings: loop variable
    data,         \* get_readings: the dict built and returned
    buf,          \* get_readings: local buf, None while unbound, else Some(text)
    sta_time,     \* get_time: local
    ts,           \* get_time: the value returned
    result,       \* the last call and how it ended
    ready,        \* open() has returned on the present connection
    sent,         \* log: the first MaxLog commands given to send_AT_cmd on the connection
    attemptSent,  \* log: the commands given to send_AT_cmd in the present attempt
    faults,       \* log: the exception that ended each earlier attempt
    rain0,        \* log: last_rain when get_readings was called
    written,      \* log: for each key of data, the attempt that wrote it
    replies,      \* log: the text send_AT_cmd returned per command, this attempt
    nbad,         \* log: deviant reply lines so far in this call
    station,      \* ID5001Driver.station: "unset" until __init__ sets it, "Station", "None"
    host,         \* who holds the Station: "caller", or where the driver's host is
    nclose,       \* log: the calls of serial_port.close() on the present port
    close_calls,  \* log: the calls of close() and closePort() since the last open()
    cmd_pc,       \* send_AT_cmd: the statement that comes next ("idle" between commands)
    exchange,     \* log: the number of the present command on the connection
    at_cmd,       \* send_AT_cmd: parameter cmd
    in_buffer,    \* serial_port: bytes received and not yet read
    in_flight,    \* bytes the instrument has sent that have not arrived yet
    out_bytes,    \* log: the bytes written to the port for the present command
    line,         \* _readline: local
    response,     \* send_AT_cmd: the value returned
    ended,        \* log: how the last _readline ended, "eol" or "timeout"
    now,          \* time.time(), in ticks
    loop_interval,\* ID5001Driver.loop_interval, in ticks
    gen_pc,       \* genLoopPackets: the statement that comes next
    the_time,     \* genLoopPackets: local
    sleep_time,   \* genLoopPackets: local
    wake,         \* the time at which time.sleep(sleep_time) may return
    slept,        \* log: time.sleep was called before the present poll
    top_at,       \* log: the time at which sleep_time was computed
    started_at,   \* log: the time at which the present poll was called
    returned_at,  \* log: the time at which the previous poll returned
    polls,        \* log: the polls called so far
    instr_clock,  \* the instrument: the fields of its clock
    instr_baro,   \* the instrument: the digits of its barometer and its unit
    decoded       \* the value a decoding function returned, None before the call

stateVars == <<serial_port, last_rain, op, pc, max_tries, ntries, data, buf, sta_time,
               ts, result, ready, sent, attemptSent, faults, rain0, written, replies,
               nbad>>

driverVars == <<station, host, nclose, close_calls>>

wireVars == <<cmd_pc, exchange, at_cmd, in_buffer, in_flight, out_bytes, line, response,
              ended>>

loopVars == <<now, loop_interval, gen_pc, the_time, sleep_time, wake, slept, top_at,
              started_at, returned_at, polls>>

pureVars == <<instr_clock, instr_baro, decoded>>

\* what the calls of the Station, taken as one step per command, leave alone
otherVars == <<wireVars, loopVars, pureVars>>

stationVars == <<serial_port, last_rain, ready, sent>>
readingVars == <<max_tries, ntries, data, buf, attemptSent, faults, rain0, written,
                 replies, nbad>>
timeVars == <<sta_time, ts>>

EmptyMap == [k \in {} |-> None]
Put(d, key, v) == [k \in (DOMAIN d) \cup {key} |-> IF k = key THEN v ELSE d[k]]
PutAll(d, keys, v) == [k \in (DOMAIN d) \cup keys |-> IF k \in keys THEN v ELSE d[k]]

Log(s, cmd) == IF Len(s) < MaxLog THEN Append(s, cmd) ELSE s

NoTime == [src |-> "none", year |-> 0, MM |-> 0, DD |-> 0, hh |-> 0, mm |-> 0, ss |-> 0]

\* a Station as constructed: the class attributes, no call made yet
StationInit ==
    /\ serial_port = "None"
    /\ last_rain = None
    /\ op = "idle"
    /\ pc = 0
    /\ max_tries = 1
    /\ ntries = 0
    /\ data = EmptyMap
    /\ buf = None
    /\ sta_time = None
    /\ ts = NoTime
    /\ result = [op |-> "none", exc |-> "none"]
    /\ ready = FALSE
    /\ sent = <<>>
    /\ attemptSent = <<>>
    /\ faults = <<>>
    /\ rain0 = None
    /\ written = EmptyMap
    /\ replies = EmptyMap
    /\ nbad = 0
    /\ nclose = 0
    /\ close_calls = 0

\* What the model records of a call (its locals, its return value, its logs)
\* is kept until the caller makes the next call.
ForgetReading ==
    /\ max_tries' = 1
    /\ ntries' = 0
    /\ data' = EmptyMap
    /\ buf' = None
    /\ attemptSent' = <<>>
    /\ faults' = <<>>
    /\ rain0' = None
    /\ written' = EmptyMap
    /\ replies' = EmptyMap
    /\ nbad' = 0

ForgetTime ==
    /\ sta_time' = None
    /\ ts' = NoTime

\* ------------------------------------------------------------------------
\* The host of the Station
\* ------------------------------------------------------------------------
\* The Station is held either by a caller that uses it directly (host =
\* "caller") or by an ID5001Driver, whose host is at "start" before the driver
\* is constructed, in "__init__" while open() runs, at "up" once it has the
\* driver, at "raised" once a call of the driver has raised, at "closed" after
\* closePort, and at "aborted" when an exception has ended the program.
\* A call that leaves the Station in state o with result r leaves the host:
\* an exception of open() leaves __init__, so no driver object exists; an
\* exception of get_readings leaves genLoopPackets, which has no try statement.
HostAfter(o, r) ==
    IF host = "caller" THEN "caller"
    ELSE IF o # "idle" THEN (IF host = "start" THEN "__init__" ELSE host)
    ELSE IF r.exc = "none" THEN (IF host = "__init__" THEN "up" ELSE host)
    ELSE IF host \in {"start", "__init__"} THEN "aborted"
    ELSE "raised"

\* a step inside a call of the Station, seen from the host
HostStep ==
    /\ host' = HostAfter(op', result')
    /\ UNCHANGED <<station, nclose, close_calls, otherVars>>

\* ------------------------------------------------------------------------
\* Transport
\* ------------------------------------------------------------------------
\* _readline: the bytes up to and including the first carriage return, or
\* what arrived before a read returned nothing
RECURSIVE _readline(_)
_readline(wire) ==
    IF wire = <<>> THEN <<>>
    ELSE IF Head(wire) = CR THEN <<CR>>
    ELSE <<Head(wire)>> \o _readline(Tail(wire))

\* send_AT_cmd without a transport fault: the trimmed line
send_AT_cmd(wire) == Strip(_readline(wire))

\* ------------------------------------------------------------------------
\* Station.send_AT_cmd and Station._readline, byte by byte
\* ------------------------------------------------------------------------
\* the commands the port is given, and their text
WireCmds == {"RTI", "RR"}

Mnemonic(c) ==
    CASE c = "RTI" -> <<"R", "T", "I">>
      [] c = "RR" -> <<"R", "R">>

\* What the instrument may send on a frame: a line, a line with blanks and a
\* linefeed around its carriage return, text with no carriage return, nothing.
Replies ==
    { <<"R", "1", CR>>,
      <<" ", "R", " ", CR, "\n">>,
      <<"R", " ">>,
      <<>> }

\* a byte of a reply, with the command it replies to
Sent(reply, n) == [i \in 1..Len(reply) |-> [ch |-> reply[i], re |-> n]]

Chars(bytes) == [i \in 1..Len(bytes) |-> bytes[i].ch]

\* line.decode() and response.strip(), on bytes that keep their origin
Trimmed(bytes) ==
    LET text == Chars(bytes)
        lead == Len(text) - Len(LStrip(text))
    IN  SubSeq(bytes, lead + 1, lead + Len(Strip(text)))

WireInit ==
    /\ cmd_pc = "idle"
    /\ exchange = 0
    /\ at_cmd = "none"
    /\ in_buffer = <<>>
    /\ in_flight = <<>>
    /\ out_bytes = <<>>
    /\ line = <<>>
    /\ response = <<>>
    /\ ended = "none"

\* send_AT_cmd(c) is called
SendCmd ==
    /\ cmd_pc = "idle"
    /\ exchange < MaxExchanges
    /\ \E c \in WireCmds : at_cmd' = c
    /\ exchange' = exchange + 1
    /\ cmd_pc' = "reset_input_buffer"
    /\ out_bytes' = <<>>
    /\ line' = <<>>
    /\ response' = <<>>
    /\ ended' = "none"
    /\ UNCHANGED <<in_buffer, in_flight, stateVars, driverVars, loopVars, pureVars>>

\* self.serial_port.reset_input_buffer()
ResetInput ==
    /\ cmd_pc = "reset_input_buffer"
    /\ in_buffer' = <<>>
    /\ cmd_pc' = "write_AT"
    /\ UNCHANGED <<exchange, at_cmd, in_flight, out_bytes, line, response, ended,
                   stateVars, driverVars, loopVars, pureVars>>

\* self.serial_port.write(str.encode("AT"))
WriteAT ==
    /\ cmd_pc = "write_AT"
    /\ out_bytes' = out_bytes \o <<"A", "T">>
    /\ cmd_pc' = "write_cmd"
    /\ UNCHANGED <<exchange, at_cmd, in_buffer, in_flight, line, response, ended,
                   stateVars, driverVars, loopVars, pureVars>>

\* self.serial_port.write(str.encode(cmd))
WriteCmd ==
    /\ cmd_pc = "write_cmd"
    /\ out_bytes' = out_bytes \o Mnemonic(at_cmd)
    /\ cmd_pc' = "write_CR"
    /\ UNCHANGED <<exchange, at_cmd, in_buffer, in_flight, line, response, ended,
                   stateVars, driverVars, loopVars, pureVars>>

\* self.serial_port.write(str.encode("\r")): the frame is complete, and the
\* instrument sends what it sends on it
WriteCR ==
    /\ cmd_pc = "write_CR"
    /\ out_bytes' = out_bytes \o <<CR>>
    /\ \E reply \in Replies : in_flight' = in_flight \o Sent(reply, exchange)
    /\ cmd_pc' = "flush"
    /\ UNCHANGED <<exchange, at_cmd, in_buffer, line, response, ended,
                   stateVars, driverVars, loopVars, pureVars>>

\* self.serial_port.flush(), then _readline() starts with an empty line
Flush ==
    /\ cmd_pc = "flush"
    /\ line' = <<>>
    /\ cmd_pc' = "_readline"
    /\ UNCHANGED <<exchange, at_cmd, in_buffer, in_flight, out_bytes, response, ended,
                   stateVars, driverVars, loopVars, pureVars>>

\* a byte of the instrument reaches the port, whatever the driver is doing
Arrive ==
    /\ in_flight # <<>>
    /\ in_buffer' = Append(in_buffer, Head(in_flight))
    /\ in_flight' = Tail(in_flight)
    /\ UNCHANGED <<cmd_pc, exchange, at_cmd, out_bytes, line, response, ended,
                   stateVars, driverVars, loopVars, pureVars>>

\* c = self.serial_port.read(1) returns a byte: it is added to the line, and
\* a carriage return ends the loop; send_AT_cmd returns the trimmed text
ReadByte ==
    /\ cmd_pc = "_readline"
    /\ in_buffer # <<>>
    /\ line' = Append(line, Head(in_buffer))
    /\ in_buffer' = Tail(in_buffer)
    /\ IF Head(in_buffer).ch = CR
       THEN /\ response' = Trimmed(line')
            /\ ended' = "eol"
            /\ cmd_pc' = "idle"
       ELSE UNCHANGED <<response, ended, cmd_pc>>
    /\ UNCHANGED <<exchange, at_cmd, in_flight, out_bytes, stateVars, driverVars, loopVars, pureVars>>

\* c = self.serial_port.read(1) returns nothing: no byte arrived within the
\* timeout; the loop ends and send_AT_cmd returns the trimmed text
ReadTimeout ==
    /\ cmd_pc = "_readline"
    /\ in_buffer = <<>>
    /\ response' = Trimmed(line)
    /\ ended' = "timeout"
    /\ cmd_pc' = "idle"
    /\ UNCHANGED <<exchange, at_cmd, in_buffer, in_flight, out_bytes, line,
                   stateVars, driverVars, loopVars, pureVars>>

\* ------------------------------------------------------------------------
\* ID5001Driver.genLoopPackets and the clock
\* ------------------------------------------------------------------------
\* SleepTime, one tick short
SleepTime_early(t, interval, clock) == t + interval - clock - 1

\* sleep_time = the_time + self.loop_interval - time.time()
SleepTime(t, interval, clock) == t + interval - clock

\* a driver configured with loop_interval, its generator not started
LoopInit(interval) ==
    /\ now = 0
    /\ loop_interval = interval
    /\ gen_pc = "new"
    /\ the_time = 0
    /\ sleep_time = 0
    /\ wake = 0
    /\ slept = FALSE
    /\ top_at = 0
    /\ started_at = 0
    /\ returned_at = 0
    /\ polls = 0

\* the clock advances, whatever the generator and its consumer are doing
Tick ==
    /\ now < MaxTime
    /\ now' = now + 1
    /\ UNCHANGED <<loop_interval, gen_pc, the_time, sleep_time, wake, slept, top_at,
                   started_at, returned_at, polls, stateVars, driverVars, wireVars,
                   pureVars>>

\* the consumer asks for the first packet: the_time = time.time()
GenStart ==
    /\ gen_pc = "new"
    /\ the_time' = now
    /\ returned_at' = now
    /\ gen_pc' = "while"
    /\ UNCHANGED <<now, loop_interval, sleep_time, wake, slept, top_at, started_at,
                   polls, stateVars, driverVars, wireVars,
                   pureVars>>

\* the top of the loop: compute sleep_time; sleep if it is positive
LoopTop ==
    /\ gen_pc = "while"
    /\ sleep_time' = SleepTime(the_time, loop_interval, now)
    /\ top_at' = now
    /\ IF sleep_time' > 0
       THEN /\ gen_pc' = "sleep"
            /\ wake' = now + sleep_time'
            /\ slept' = TRUE
       ELSE /\ gen_pc' = "call"
            /\ slept' = FALSE
            /\ UNCHANGED wake
    /\ UNCHANGED <<now, loop_interval, the_time, started_at, returned_at, polls,
                   stateVars, driverVars, wireVars,
                   pureVars>>

\* time.sleep(sleep_time) returns, not before sleep_time has passed
Wake ==
    /\ gen_pc = "sleep"
    /\ now >= wake
    /\ gen_pc' = "call"
    /\ UNCHANGED <<now, loop_interval, the_time, sleep_time, wake, slept, top_at,
                   started_at, returned_at, polls, stateVars, driverVars, wireVars,
                   pureVars>>

\* readings = self.station.get_readings(...) is called
CallPoll ==
    /\ gen_pc = "call"
    /\ started_at' = now
    /\ polls' = polls + 1
    /\ gen_pc' = "get_readings"
    /\ UNCHANGED <<now, loop_interval, the_time, sleep_time, wake, slept, top_at,
                   returned_at, stateVars, driverVars, wireVars,
                   pureVars>>

\* get_readings returns, after whatever time its attempts have taken
PollReturns ==
    /\ gen_pc = "get_readings"
    /\ returned_at' = now
    /\ gen_pc' = "stamp"
    /\ UNCHANGED <<now, loop_interval, the_time, sleep_time, wake, slept, top_at,
                   started_at, polls, stateVars, driverVars, wireVars,
                   pureVars>>

\* get_readings raises: the exception leaves the generator
PollRaises ==
    /\ gen_pc = "get_readings"
    /\ gen_pc' = "raised"
    /\ UNCHANGED <<now, loop_interval, the_time, sleep_time, wake, slept, top_at,
                   started_at, returned_at, polls, stateVars, driverVars, wireVars,
                   pureVars>>

\* the_time = time.time(); the packet is built and yielded
Stamp ==
    /\ gen_pc = "stamp"
    /\ the_time' = now
    /\ gen_pc' = "yield"
    /\ UNCHANGED <<now, loop_interval, sleep_time, wake, slept, top_at, started_at,
                   returned_at, polls, stateVars, driverVars, wireVars,
                   pureVars>>

\* the consumer asks for the next packet
Resume ==
    /\ gen_pc = "yield"
    /\ gen_pc' = "while"
    /\ UNCHANGED <<now, loop_interval, the_time, sleep_time, wake, slept, top_at,
                   started_at, returned_at, polls, stateVars, driverVars, wireVars,
                   pureVars>>

\* ------------------------------------------------------------------------
\* Station.open / Station.close
\* ------------------------------------------------------------------------
\* serial.Serial(...) either yields a port or raises.  open() is called on a
\* station that holds no port: once after construction (in ID5001Driver.__init__,
\* which has set self.station just before) and, by a caller, again after a close().
OpenPort ==
    /\ op = "idle"
    /\ serial_port = "None"
    /\ host \in {"caller", "start"}
    /\ \/ /\ serial_port' = "open"
          /\ op' = "open"
          /\ pc' = 1
          /\ sent' = <<>>
          /\ ready' = FALSE
          /\ result' = [op |-> "open", exc |-> "running"]
       \/ /\ result' = [op |-> "open", exc |-> "SerialException"]
          /\ UNCHANGED <<serial_port, op, pc, sent, ready>>
    /\ ForgetReading
    /\ ForgetTime
    /\ UNCHANGED last_rain
    /\ station' = IF host = "start" THEN "Station" ELSE station
    /\ nclose' = 0
    /\ close_calls' = 0
    /\ host' = HostAfter(op', result')
    /\ UNCHANGED otherVars

\* one of the four initialization commands; its reply is not looked at
InitStep(k) ==
    /\ op = "open"
    /\ pc = k
    /\ \/ /\ sent' = Log(sent, OpenCmds[k])
          /\ op' = "idle"
          /\ pc' = 0
          /\ result' = [op |-> "open", exc |-> "SerialException"]
       \/ /\ sent' = Log(sent, OpenCmds[k])
          /\ pc' = k + 1
          /\ UNCHANGED <<op, result>>
    /\ UNCHANGED <<serial_port, last_rain, ready, readingVars, timeVars>>
    /\ HostStep

OpenEC == InitStep(1)
OpenLS == InitStep(2)
OpenXCA == InitStep(3)
OpenCWGH == InitStep(4)

\* Primed, without the default
Primed_noDefault(total) == total

\* if self.last_rain is None: self.last_rain = 0
Primed(total) == IF IsNone(total) THEN Some(0) ELSE total

\* the priming read of the rain total; the reply is logged in replies
OpenRR ==
    /\ op = "open"
    /\ pc = 5
    /\ \/ /\ sent' = Log(sent, "RR")
          /\ result' = [op |-> "open", exc |-> "SerialException"]
          /\ UNCHANGED <<last_rain, ready, replies>>
       \/ \E wire \in Nominal("RR") \cup Deviant("RR") :
            LET text == send_AT_cmd(wire)
            IN  /\ sent' = Log(sent, "RR")
                /\ replies' = Put(EmptyMap, "RR", text)
                /\ last_rain' = Primed(_decodeRain(text).val)
                /\ ready' = TRUE
                /\ result' = [op |-> "open", exc |-> "none"]
    /\ op' = "idle"
    /\ pc' = 0
    /\ UNCHANGED <<serial_port, max_tries, ntries, data, buf, attemptSent, faults, rain0,
                   written, nbad, timeVars>>
    /\ HostStep

\* close, without self.serial_port = None
close_keepsPort ==
    IF serial_port # "None"
    THEN /\ nclose' = nclose + 1
         /\ ready' = FALSE
         /\ UNCHANGED serial_port
    ELSE UNCHANGED <<nclose, serial_port, ready>>

\* the body of Station.close()
close ==
    IF serial_port # "None"
    THEN /\ nclose' = nclose + 1
         /\ serial_port' = "None"
         /\ ready' = FALSE
    ELSE UNCHANGED <<nclose, serial_port, ready>>

\* close() may be called at any time between calls, also with no port held:
\* by a caller, or by the host of a driver on a Station it has made itself
\* ("start") or on the driver's station
Close ==
    /\ op = "idle"
    /\ host \in {"caller", "start", "up", "raised"}
    /\ close_calls < MaxCloseCalls
    /\ close_calls' = close_calls + 1
    /\ close
    /\ result' = [op |-> "close", exc |-> "none"]
    /\ ForgetReading
    /\ ForgetTime
    /\ UNCHANGED <<last_rain, op, pc, sent>>
    /\ UNCHANGED <<station, host, otherVars>>

\* ID5001Driver.closePort, called by a host that has the driver: at shutdown,
\* after a call of the driver has raised, or once more after closePort
closePort ==
    /\ op = "idle"
    /\ host \in {"up", "raised", "closed"}
    /\ close_calls < MaxCloseCalls
    /\ close_calls' = close_calls + 1
    /\ IF station # "None"
       THEN /\ close
            /\ station' = "None"
       ELSE UNCHANGED <<nclose, serial_port, ready, station>>
    /\ host' = "closed"
    /\ result' = [op |-> "closePort", exc |-> "none"]
    /\ ForgetReading
    /\ ForgetTime
    /\ UNCHANGED <<last_rain, op, pc, sent, otherVars>>

\* the loop of __main__ over genLoopPackets: an exception ends the program,
\* which has no call of closePort
Main_raise ==
    /\ host = "raised"
    /\ host' = "aborted"
    /\ UNCHANGED <<stateVars, station, nclose, close_calls, otherVars>>

\* ------------------------------------------------------------------------
\* Station.get_readings
\* ------------------------------------------------------------------------
\* the effect of one decoded reply on data and last_rain:
\* [exc, data, last_rain, keys], keys being the entries of data it wrote
Stored(exc, d, lr, keys) == [exc |-> exc, data |-> d, last_rain |-> lr, keys |-> keys]

StoreOne(key, r, d, lr) ==
    IF r.exc # "none" THEN Stored(r.exc, d, lr, {})
    ELSE Stored("none", Put(d, key, r.val), lr, {key})

\* windSpeed / windGust is stored before the direction is decoded
StoreWind(speedKey, dirKey, text, d, lr) ==
    LET sp == _decodeWindSpeed(text)
        dr == _decodeWindDirection(text)
    IN  IF sp.exc # "none" THEN Stored(sp.exc, d, lr, {})
        ELSE IF dr.exc # "none" THEN Stored(dr.exc, Put(d, speedKey, sp.val), lr, {speedKey})
        ELSE Stored("none", Put(Put(d, speedKey, sp.val), dirKey, dr.val), lr,
                    {speedKey, dirKey})

\* StoreRain without the clamp of a negative delta
StoreRain_noClamp(text, d, lr) ==
    LET this_rain == _decodeRain(text).val
    IN  IF IsNone(this_rain) THEN Stored("none", d, lr, {})
        ELSE Stored("none", Put(d, "rain", Some(Val(this_rain) - Val(lr))), this_rain,
                    {"rain"})

\* rain total: the delta against last_rain, clamped at zero; last_rain advances
StoreRain(text, d, lr) ==
    LET this_rain == _decodeRain(text).val
    IN  IF IsNone(this_rain) THEN Stored("none", d, lr, {})
        ELSE LET rain_delta == Val(this_rain) - Val(lr)
                 clamped == IF rain_delta < 0 THEN 0 ELSE rain_delta
             IN  Stored("none", Put(d, "rain", Some(clamped)), this_rain, {"rain"})

Store(cmd, text, d, lr) ==
    CASE cmd = "RTI" -> StoreOne("inTemp", _decodeTemperature(text), d, lr)
      [] cmd = "RTO" -> StoreOne("outTemp", _decodeTemperature(text), d, lr)
      [] cmd = "RHI" -> StoreOne("inHumidity", _decodeHumidity(text), d, lr)
      [] cmd = "RHO" -> StoreOne("outHumidity", _decodeHumidity(text), d, lr)
      [] cmd = "RWA" -> StoreWind("windSpeed", "windDir", text, d, lr)
      [] cmd = "RWGH" -> StoreWind("windGust", "windGustDir", text, d, lr)
      [] cmd = "CWGH" -> Stored("none", d, lr, {})
      [] cmd = "RB" -> StoreOne("barometer", _decodeBarometer(text), d, lr)
      [] cmd = "RR" -> StoreRain(text, d, lr)
      [] cmd = "RRR" -> StoreOne("rain_rate", _decodeRain(text), d, lr)
      [] cmd = "RWCA" -> StoreOne("windhcill", _decodeTemperature(SliceFrom(text, 1)), d, lr)

\* the caller polls a station whose open() has returned
get_readings ==
    /\ op = "idle"
    /\ ready
    /\ host \in {"caller", "up"}
    /\ \E mt \in 1..MaxTries : max_tries' = mt
    /\ op' = "get_readings"
    /\ pc' = 1
    /\ ntries' = 0
    /\ data' = EmptyMap
    /\ buf' = None
    /\ result' = [op |-> "get_readings", exc |-> "running"]
    /\ attemptSent' = <<>>
    /\ faults' = <<>>
    /\ rain0' = last_rain
    /\ written' = EmptyMap
    /\ replies' = EmptyMap
    /\ nbad' = 0
    /\ ForgetTime
    /\ UNCHANGED stationVars
    /\ HostStep

\* the replies the instrument may still give to cmd in this call
Wires(cmd) == Nominal(cmd) \cup (IF nbad < MaxBad THEN Deviant(cmd) ELSE {})

\* command k of the sequence: send it, decode the reply, store the value;
\* the last command is followed by `return data`
ReadStep(k) ==
    LET cmd == ReadCmds[k]
    IN  /\ op = "get_readings"
        /\ pc = k
        /\ \/ \* the transport raises inside send_AT_cmd
              /\ attemptSent' = Append(attemptSent, cmd)
              /\ sent' = Log(sent, cmd)
              /\ faults' = Append(faults, "SerialException")
              /\ op' = "get_readings.except"
              /\ UNCHANGED <<pc, data, buf, last_rain, written, replies, nbad, result>>
           \/ \E wire \in Wires(cmd) :
                LET text == send_AT_cmd(wire)
                    r == Store(cmd, text, data, last_rain)
                IN  /\ attemptSent' = Append(attemptSent, cmd)
                    /\ sent' = Log(sent, cmd)
                    /\ buf' = Some(IF cmd = "RWCA" THEN SliceFrom(text, 1) ELSE text)
                    /\ replies' = Put(replies, cmd, text)
                    /\ nbad' = IF wire \in Deviant(cmd) THEN nbad + 1 ELSE nbad
                    /\ data' = r.data
                    /\ last_rain' = r.last_rain
                    /\ written' = PutAll(written, r.keys, ntries + 1)
                    /\ IF r.exc # "none"
                       THEN /\ faults' = Append(faults, r.exc)
                            /\ op' = "get_readings.except"
                            /\ UNCHANGED <<pc, result>>
                       ELSE IF k < Len(ReadCmds)
                       THEN /\ pc' = k + 1
                            /\ UNCHANGED <<op, faults, result>>
                       ELSE /\ op' = "idle"
                            /\ pc' = 0
                            /\ result' = [op |-> "get_readings", exc |-> "none"]
                            /\ UNCHANGED faults
        /\ UNCHANGED <<serial_port, ready, max_tries, ntries, rain0, timeVars>>
        /\ HostStep

ReadRTI == ReadStep(1)
ReadRTO == ReadStep(2)
ReadRHI == ReadStep(3)
ReadRHO == ReadStep(4)
ReadRWA == ReadStep(5)
ReadRWGH == ReadStep(6)
ReadCWGH == ReadStep(7)
ReadRB == ReadStep(8)
ReadRR == ReadStep(9)
ReadRRR == ReadStep(10)
ReadRWCA == ReadStep(11)

\* the except clause: log the failure (the message formats buf), sleep, and
\* go round the loop; after the last round raise RetriesExceeded
ReadExcept ==
    /\ op = "get_readings.except"
    /\ IF IsNone(buf)
       THEN \* buf was never bound: the log call itself raises
            /\ op' = "idle"
            /\ pc' = 0
            /\ result' = [op |-> "get_readings", exc |-> "UnboundLocalError"]
            /\ UNCHANGED <<ntries, attemptSent, replies>>
       ELSE IF ntries + 1 < max_tries
       THEN /\ ntries' = ntries + 1
            /\ op' = "get_readings"
            /\ pc' = 1
            /\ attemptSent' = <<>>
            /\ replies' = EmptyMap
            /\ UNCHANGED result
       ELSE /\ op' = "idle"
            /\ pc' = 0
            /\ result' = [op |-> "get_readings", exc |-> "RetriesExceeded"]
            /\ UNCHANGED <<ntries, attemptSent, replies>>
    /\ UNCHANGED <<stationVars, max_tries, data, buf, faults, rain0, written, nbad, timeVars>>
    /\ HostStep

\* ------------------------------------------------------------------------
\* Station.get_time
\* ------------------------------------------------------------------------
\* the caller reads the clock of a station whose open() has returned
get_time ==
    /\ op = "idle"
    /\ ready
    /\ host \in {"caller", "up"}
    /\ op' = "get_time"
    /\ pc' = 1
    /\ sta_time' = None
    /\ ts' = NoTime
    /\ result' = [op |-> "get_time", exc |-> "running"]
    /\ ForgetReading
    /\ UNCHANGED stationVars
    /\ HostStep

\* Century, with 86 taken for 1986
Century_from86(YY) == IF YY >= 86 THEN 1900 + YY ELSE 2000 + YY

\* if YY > 86: year = 1900 + YY, else: year = 2000 + YY
Century(YY) == IF YY > 86 THEN 1900 + YY ELSE 2000 + YY

\* the tuple handed to time.mktime
StationTime(t, d) ==
    LET hh == t \div 10000
        mm == t \div 100 - hh * 100
        ss == t - mm * 100 - hh * 10000
        YY == d \div 10000
        MM == d \div 100 - YY * 100
        DD == d - MM * 100 - YY * 10000
    IN  [src |-> "station", year |-> Century(YY), MM |-> MM, DD |-> DD,
         hh |-> hh, mm |-> mm, ss |-> ss]

\* int(time.time()): the caller's clock, not the station's
SystemTime == [src |-> "system", year |-> 0, MM |-> 0, DD |-> 0, hh |-> 0, mm |-> 0, ss |-> 0]

\* sta_time = int(self.send_AT_cmd("RT"))
GetTimeRT ==
    /\ op = "get_time"
    /\ pc = 1
    /\ \/ /\ sent' = Log(sent, "RT")
          /\ op' = "get_time.except"
          /\ UNCHANGED <<pc, sta_time, result>>
       \/ \E wire \in Nominal("RT") \cup Deviant("RT") :
            LET v == PyInt(send_AT_cmd(wire))
            IN  /\ sent' = Log(sent, "RT")
                /\ IF IsNone(v)
                   THEN /\ op' = "idle"
                        /\ pc' = 0
                        /\ result' = [op |-> "get_time", exc |-> "ValueError"]
                        /\ UNCHANGED sta_time
                   ELSE /\ sta_time' = v
                        /\ pc' = 2
                        /\ UNCHANGED <<op, result>>
    /\ UNCHANGED <<serial_port, last_rain, ready, ts, readingVars>>
    /\ HostStep

\* sta_date = int(self.send_AT_cmd("RD")), then the decomposition and return
GetTimeRD ==
    /\ op = "get_time"
    /\ pc = 2
    /\ \/ /\ sent' = Log(sent, "RD")
          /\ op' = "get_time.except"
          /\ UNCHANGED <<pc, ts, result>>
       \/ \E wire \in Nominal("RD") \cup Deviant("RD") :
            LET v == PyInt(send_AT_cmd(wire))
            IN  /\ sent' = Log(sent, "RD")
                /\ op' = "idle"
                /\ pc' = 0
                /\ IF IsNone(v)
                   THEN /\ result' = [op |-> "get_time", exc |-> "ValueError"]
                        /\ UNCHANGED ts
                   ELSE /\ ts' = StationTime(Val(sta_time), Val(v))
                        /\ result' = [op |-> "get_time", exc |-> "none"]
    /\ UNCHANGED <<serial_port, last_rain, ready, sta_time, readingVars>>
    /\ HostStep

\* except (SerialException, WeeWxIOError): log, then return int(time.time())
GetTimeExcept ==
    /\ op = "get_time.except"
    /\ op' = "idle"
    /\ pc' = 0
    /\ ts' = SystemTime
    /\ result' = [op |-> "get_time", exc |-> "none"]
    /\ UNCHANGED <<stationVars, sta_time, readingVars>>
    /\ HostStep

\* ------------------------------------------------------------------------
\* The instrument's clock and barometer, and their decoding
\* ------------------------------------------------------------------------
DigitChar(d) == CHOOSE c \in Digits : DigitVal(c) = d

\* a field of the instrument as it prints it: two digits, four digits
TwoDigits(n) == <<DigitChar(n \div 10), DigitChar(n % 10)>>
FourDigits(n) == TwoDigits(n \div 100) \o TwoDigits(n % 100)

Clock(yy, mo, dd, hh, mi, ss) ==
    [yy |-> yy, mo |-> mo, dd |-> dd, hh |-> hh, mi |-> mi, ss |-> ss]

\* the replies to ATRT (hhmmss) and ATRD (yymmdd)
TimeLine(c) == Line(TwoDigits(c.hh) \o TwoDigits(c.mi) \o TwoDigits(c.ss))
DateLine(c) == Line(TwoDigits(c.yy) \o TwoDigits(c.mo) \o TwoDigits(c.dd))

\* the reply to ATRB: Bnnnn, with M when the instrument reports millibars
BaroLine(b) == Line(<<"B">> \o FourDigits(b.value) \o (IF b.millibars THEN <<"M">> ELSE <<>>))

\* an instrument whose clock and barometer show the nominal replies
InstrumentInit ==
    /\ instr_clock = Clock(99, 12, 31, 23, 59, 58)
    /\ instr_baro = [value |-> 2992, millibars |-> FALSE]
    /\ decoded = None

\* the clock settings looked at: each field over its whole range, the other
\* fields at either end of theirs
ClockSettings ==
    LET YY == 0..99
        MO == 1..12
        DD == 1..31
        HH == 0..23
        MI == 0..59
        SS == 0..59
        Ends(S) == {CHOOSE lo \in S : \A x \in S : lo <= x,
                    CHOOSE hi \in S : \A x \in S : hi >= x}
    IN  UNION {
          {Clock(yy, mo, dd, hh, mi, ss) :
             yy \in F[1], mo \in F[2], dd \in F[3], hh \in F[4], mi \in F[5], ss \in F[6]} :
          F \in { <<YY, Ends(MO), Ends(DD), Ends(HH), Ends(MI), Ends(SS)>>,
                  <<Ends(YY), MO, Ends(DD), Ends(HH), Ends(MI), Ends(SS)>>,
                  <<Ends(YY), Ends(MO), DD, Ends(HH), Ends(MI), Ends(SS)>>,
                  <<Ends(YY), Ends(MO), Ends(DD), HH, Ends(MI), Ends(SS)>>,
                  <<Ends(YY), Ends(MO), Ends(DD), Ends(HH), MI, Ends(SS)>>,
                  <<Ends(YY), Ends(MO), Ends(DD), Ends(HH), Ends(MI), SS>> } }

\* get_time with both reads answered: the tuple handed to time.mktime
ReadClock ==
    /\ IsNone(decoded)
    /\ LET t == PyInt(send_AT_cmd(TimeLine(instr_clock)))
           d == PyInt(send_AT_cmd(DateLine(instr_clock)))
       IN  decoded' = Some(StationTime(Val(t), Val(d)))
    /\ UNCHANGED <<instr_clock, instr_baro, stateVars, driverVars, wireVars, loopVars>>

\* the barometer field of get_readings: _decodeBarometer on the reply to ATRB
ReadBarometer ==
    /\ IsNone(decoded)
    /\ decoded' = Some(_decodeBarometer(send_AT_cmd(BaroLine(instr_baro))))
    /\ UNCHANGED <<instr_clock, instr_baro, stateVars, driverVars, wireVars, loopVars>>

\* ------------------------------------------------------------------------
\* Specification: a Station and a caller that may make any call between calls
\* ------------------------------------------------------------------------
vars == <<stateVars, driverVars, otherVars>>

Init ==
    /\ StationInit
    /\ station = "unset"
    /\ host = "caller"
    /\ WireInit
    /\ LoopInit(1)
    /\ InstrumentInit

Next ==
    \/ OpenPort \/ OpenEC \/ OpenLS \/ OpenXCA \/ OpenCWGH \/ OpenRR
    \/ Close
    \/ get_readings
    \/ ReadRTI \/ ReadRTO \/ ReadRHI \/ ReadRHO \/ ReadRWA \/ ReadRWGH
    \/ ReadCWGH \/ ReadRB \/ ReadRR \/ ReadRRR \/ ReadRWCA
    \/ ReadExcept
    \/ get_time \/ GetTimeRT \/ GetTimeRD \/ GetTimeExcept

Spec == Init /\ [][Next]_vars

\* ------------------------------------------------------------------------
\* Specification: the Station of an ID5001Driver, from before the driver is
\* constructed to the end of its host's session
\* ------------------------------------------------------------------------
DriverInit ==
    /\ StationInit
    /\ station = "unset"
    /\ host = "start"
    /\ WireInit
    /\ LoopInit(1)
    /\ InstrumentInit

DriverNext ==
    \/ OpenPort \/ OpenEC \/ OpenLS \/ OpenXCA \/ OpenCWGH \/ OpenRR
    \/ Close
    \/ closePort
    \/ get_readings
    \/ ReadRTI \/ ReadRTO \/ ReadRHI \/ ReadRHO \/ ReadRWA \/ ReadRWGH
    \/ ReadCWGH \/ ReadRB \/ ReadRR \/ ReadRRR \/ ReadRWCA
    \/ ReadExcept
    \/ get_time \/ GetTimeRT \/ GetTimeRD \/ GetTimeExcept
    \/ Main_raise

SpecDriver == DriverInit /\ [][DriverNext]_vars

\* ------------------------------------------------------------------------
\* Specification: the port and the instrument during send_AT_cmd
\* ------------------------------------------------------------------------
WireNext ==
    \/ SendCmd
    \/ ResetInput
    \/ WriteAT
    \/ WriteCmd
    \/ WriteCR
    \/ Flush
    \/ Arrive
    \/ ReadByte
    \/ ReadTimeout

SpecWire == Init /\ [][WireNext]_vars

\* ------------------------------------------------------------------------
\* Specification: genLoopPackets, its consumer and the clock
\* ------------------------------------------------------------------------
LoopSpecInit ==
    /\ StationInit
    /\ station = "Station"
    /\ host = "up"
    /\ WireInit
    /\ \E interval \in 1..MaxInterval : LoopInit(interval)
    /\ InstrumentInit

LoopNext ==
    \/ Tick
    \/ GenStart
    \/ LoopTop
    \/ Wake
    \/ CallPoll
    \/ PollReturns
    \/ PollRaises
    \/ Stamp
    \/ Resume

SpecLoop == LoopSpecInit /\ [][LoopNext]_vars

\* ------------------------------------------------------------------------
\* Specification: get_time on the reply lines of an instrument whose clock
\* shows any of the settings
\* ------------------------------------------------------------------------
ClockInit ==
    /\ StationInit
    /\ station = "unset"
    /\ host = "caller"
    /\ WireInit
    /\ LoopInit(1)
    /\ instr_clock \in ClockSettings
    /\ instr_baro = [value |-> 2992, millibars |-> FALSE]
    /\ decoded = None

ClockNext == ReadClock

SpecClock == ClockInit /\ [][ClockNext]_vars

\* ------------------------------------------------------------------------
\* Specification: _decodeBarometer on the reply lines of an instrument whose
\* barometer shows any four digits, in either unit
\* ------------------------------------------------------------------------
BaroInit ==
    /\ StationInit
    /\ station = "unset"
    /\ host = "caller"
    /\ WireInit
    /\ LoopInit(1)
    /\ instr_clock = Clock(99, 12, 31, 23, 59, 58)
    /\ instr_baro \in [value : 0..9999, millibars : BOOLEAN]
    /\ decoded = None

BaroNext == ReadBarometer

SpecBaro == BaroInit /\ [][BaroNext]_vars

\* ------------------------------------------------------------------------
\* Vocabulary of the properties
\* ------------------------------------------------------------------------
InReadings == op \in {"get_readings", "get_readings.except"}
ReadingsDone == op = "idle" /\ result.op = "get_readings"
Returned == ReadingsDone /\ result.exc = "none"

\* attempts started so far by the present (or last) get_readings call
Attempts == ntries + 1

IsPrefix(s, t) == Len(s) <= Len(t) /\ \A i \in 1..Len(s) : s[i] = t[i]

Absent(key) == key \notin DOMAIN data \/ IsNone(data[key])
Present(key) == key \in DOMAIN data /\ ~IsNone(data[key])

\* the trimmed texts of a set of wire lines
Texts(wires) == {send_AT_cmd(w) : w \in wires}

\* ------------------------------------------------------------------------
\* C1: when the transport faults on every attempt of get_readings, at
\* whichever command, the call makes exactly max_tries attempts and raises
\* RetriesExceeded; nothing but RetriesExceeded escapes get_readings.
\* ------------------------------------------------------------------------
C1_ExhaustionRaisesRetriesExceeded ==
    /\ (ReadingsDone /\ result.exc # "none") => result.exc = "RetriesExceeded"
    /\ (ReadingsDone /\ Len(faults) = Attempts
          /\ \A i \in 1..Len(faults) : faults[i] = "SerialException")
       => (result.exc = "RetriesExceeded" /\ Attempts = max_tries)

\* ------------------------------------------------------------------------
\* C2: when attempts 1..k-1 hit a transport fault and attempt k (k <=
\* max_tries) meets none, exactly k attempts are made and a snapshot is
\* returned: a call that ended after fewer than max_tries faulted attempts,
\* all of them transport faults, ended by returning from the next attempt.
\* ------------------------------------------------------------------------
C2_SuccessAfterTransportFaults ==
    (ReadingsDone /\ Len(faults) < max_tries
       /\ \A i \in 1..Len(faults) : faults[i] = "SerialException")
    => (result.exc = "none" /\ Attempts = Len(faults) + 1)

\* ------------------------------------------------------------------------
\* C3: on every connection the first four commands are EC, LS, XCA, CWGH in
\* this order, each of them issued once by open(), and no field-read
\* command (the priming RR included) comes before all four; when open()
\* has returned all four and the priming read have been issued.
\* ------------------------------------------------------------------------
C3_InitBeforeAnyRead ==
    /\ IsPrefix(SubSeq(sent, 1, Min(Len(sent), 4)), <<"EC", "LS", "XCA", "CWGH">>)
    /\ \A i \in 1..Len(sent) :
         sent[i] \in {"RTI", "RTO", "RHI", "RHO", "RWA", "RWGH", "RB", "RR", "RRR", "RWCA"}
         => i > 4
    /\ \A i \in 1..Len(sent) : sent[i] \in {"EC", "LS", "XCA"} => i < 4
    /\ ready => (Len(sent) >= 5 /\ sent[5] = "RR")

C3_Witness ==
    /\ ready
    /\ SubSeq(sent, 1, 5) = <<"EC", "LS", "XCA", "CWGH", "RR">>
    /\ Returned

\* ------------------------------------------------------------------------
\* C4: the commands of every attempt of get_readings are a prefix of RTI,
\* RTO, RHI, RHO, RWA, RWGH, CWGH, RB, RR, RRR, RWCA (so none is repeated
\* within an attempt and every attempt, also one after a fault, begins at
\* RTI); an attempt that returns has issued all eleven.
\* ------------------------------------------------------------------------
C4_FixedOrderPerAttempt ==
    /\ (InReadings \/ ReadingsDone)
       => IsPrefix(attemptSent,
                   <<"RTI", "RTO", "RHI", "RHO", "RWA", "RWGH", "CWGH", "RB", "RR", "RRR",
                     "RWCA">>)
    /\ Returned => Len(attemptSent) = 11
    /\ (InReadings /\ ntries >= 1 /\ attemptSent # <<>>) => attemptSent[1] = "RTI"

C4_Witness ==
    /\ Returned
    /\ ntries >= 1
    /\ faults # <<>>
    /\ Len(attemptSent) = 11

\* ------------------------------------------------------------------------
\* C5: when the rain-total reply of an attempt decodes to r while
\* last_rain is p, data['rain'] becomes r - p if r >= p and 0 if r < p, and
\* last_rain becomes r; no rain entry of data is ever negative.
\* ------------------------------------------------------------------------
C5_RainStep ==
    (op = "get_readings" /\ pc = 9 /\ "RR" \in DOMAIN replies'
       /\ ~IsNone(_decodeRain(replies'["RR"]).val))
    => LET r == Val(_decodeRain(replies'["RR"]).val)
           p == Val(last_rain)
       IN  /\ "rain" \in DOMAIN data'
           /\ data'["rain"] = Some(IF r >= p THEN r - p ELSE 0)
           /\ last_rain' = Some(r)

C5_RainDeltaClamped ==
    /\ [][C5_RainStep]_vars
    /\ []("rain" \in DOMAIN data => (~IsNone(data["rain"]) /\ Val(data["rain"]) >= 0))

C5_Witness ==
    /\ Returned
    /\ "rain" \in DOMAIN data
    /\ data["rain"] = Some(0)
    /\ written["rain"] = Attempts
    /\ Val(last_rain) < Val(rain0)

\* ------------------------------------------------------------------------
\* C6: the rain delta a get_readings call returns is max(0, r - p), r being
\* the rain total decoded in the attempt that succeeded and p the value
\* last_rain had when the call began, whatever earlier attempts of the call
\* read before they faulted.
\* ------------------------------------------------------------------------
C6_DeltaSincePreviousPoll ==
    (Returned /\ "RR" \in DOMAIN replies /\ ~IsNone(_decodeRain(replies["RR"]).val))
    => LET r == Val(_decodeRain(replies["RR"]).val)
           p == Val(rain0)
       IN  Present("rain") /\ data["rain"] = Some(IF r >= p THEN r - p ELSE 0)

\* ------------------------------------------------------------------------
\* C7: every entry of the snapshot get_readings returns was written by the
\* attempt that succeeded, none by an earlier, faulted attempt.
\* ------------------------------------------------------------------------
C7_SnapshotFromSuccessfulAttempt ==
    Returned => \A key \in DOMAIN data : written[key] = Attempts

\* ------------------------------------------------------------------------
\* C8: when one field's reply is malformed (wrong length or a non-digit),
\* every other reply is well-formed and the transport does not fault, the
\* attempt is not retried, the malformed field is absent and every other
\* field that was read is populated.
\* ------------------------------------------------------------------------
MalformedCmds == {cmd \in DOMAIN replies : replies[cmd] \in Texts(Malformed(cmd))}
WellFormedCmds == {cmd \in DOMAIN replies : replies[cmd] \in Texts(Nominal(cmd))}

C8_MalformedFieldAbsent ==
    ((InReadings \/ ReadingsDone)
       /\ Cardinality(MalformedCmds) = 1
       /\ MalformedCmds \cup WellFormedCmds = DOMAIN replies
       /\ \A i \in 1..Len(faults) : faults[i] # "SerialException")
    => /\ faults = <<>>
       /\ ntries = 0
       /\ result.exc \in {"running", "none"}
       /\ \A cmd \in MalformedCmds : \E key \in KeysOf(cmd) : Absent(key)
       /\ \A cmd \in WellFormedCmds : \A key \in KeysOf(cmd) : Present(key)

\* ------------------------------------------------------------------------
\* C9: a read that times out with zero bytes makes send_AT_cmd return the
\* empty line and the field decoder report an absent value: no IndexError
\* leaves a decoder, the attempt is not retried for it, and RetriesExceeded
\* is raised only after transport faults.
\* ------------------------------------------------------------------------
C9_TimeoutYieldsAbsent ==
    /\ send_AT_cmd(TimedOut) = <<>>
    /\ \A i \in 1..Len(faults) : faults[i] # "IndexError"
    /\ (ReadingsDone /\ result.exc = "RetriesExceeded")
       => \A i \in 1..Len(faults) : faults[i] = "SerialException"
    /\ (InReadings \/ ReadingsDone)
       => \A cmd \in DOMAIN replies :
            (replies[cmd] = <<>> /\ written = [k \in DOMAIN written |-> Attempts])
            => \A key \in KeysOf(cmd) : Absent(key)

\* ------------------------------------------------------------------------
\* C10: get_time never raises: after a transport fault and after a reply
\* that does not decode to a number it returns the caller's system time.
\* ------------------------------------------------------------------------
C10_GetTimeNeverFails ==
    (op = "idle" /\ result.op = "get_time") => result.exc = "none"

\* ------------------------------------------------------------------------
\* The connection and its host
\* ------------------------------------------------------------------------
\* the host's session is over: it has shut the driver down with closePort, or
\* an exception has left it without a driver or has ended the program
SessionEnded == host \in {"closed", "aborted"}

\* C11: the port is released on every exit path of the owning session: once
\* the session has ended (after closePort, after an exception of get_readings
\* has passed through genLoopPackets, after open() has failed part-way), the
\* Station holds no open port.
C11_PortReleasedOnEveryExit == SessionEnded => serial_port = "None"

\* ------------------------------------------------------------------------
\* The port during send_AT_cmd
\* ------------------------------------------------------------------------
\* send_AT_cmd has returned for the present command
LineReturned == cmd_pc = "idle" /\ exchange > 0

\* C12: whatever the order in which the instrument's bytes arrive, a late
\* reply included, the line send_AT_cmd returns for a command holds only
\* bytes the instrument sent in reply to that command, and no byte of the
\* frame is written before the input buffer has been discarded.
C12_OnlyBytesOfOwnReply ==
    /\ LineReturned => \A i \in 1..Len(response) : response[i].re = exchange
    /\ out_bytes # <<>> => cmd_pc # "reset_input_buffer"
    /\ LineReturned => out_bytes = <<"A", "T">> \o Mnemonic(at_cmd) \o <<CR>>

\* ------------------------------------------------------------------------
\* The timing of genLoopPackets
\* ------------------------------------------------------------------------
\* C13: every poll is called no earlier than loop_interval after the previous
\* poll returned (the first one no earlier than loop_interval after the
\* generator started), so at most one poll runs per interval; the sleep asked
\* for before a poll is loop_interval minus the time elapsed since the stamp
\* taken when the previous poll returned, and there is no sleep when that
\* remainder is not positive.
C13_OnePollPerInterval ==
    /\ gen_pc = "get_readings" => started_at >= returned_at + loop_interval
    /\ gen_pc \in {"sleep", "call", "get_readings"}
       => /\ sleep_time = loop_interval - (top_at - the_time)
          /\ slept <=> sleep_time > 0
    /\ gen_pc = "sleep" => wake = top_at + sleep_time

\* a second poll is called after a sleep shorter than the interval, the
\* consumer having used up a part of it
C13_Witness ==
    /\ gen_pc = "get_readings"
    /\ polls = 2
    /\ slept
    /\ sleep_time < loop_interval
    /\ started_at = returned_at + loop_interval

\* ------------------------------------------------------------------------
\* last_rain
\* ------------------------------------------------------------------------
\* open() has just returned
OpenReturned == op = "idle" /\ result = [op |-> "open", exc |-> "none"]

\* C14: from the return of open() on, last_rain is a number: open() sets it
\* to the rain total decoded from its priming read, or to 0 when that reply
\* does not decode, and it is a number whenever a poll is running.
C14_LastRainIsNumber ==
    /\ ready => ~IsNone(last_rain)
    /\ InReadings => ~IsNone(last_rain)
    /\ OpenReturned
       => LET total == _decodeRain(replies["RR"]).val
          IN  last_rain = IF IsNone(total) THEN Some(0) ELSE total

\* the priming reply did not decode, and a later poll has computed its rain
\* delta against the 0 that open() stored
C14_Witness ==
    /\ Returned
    /\ rain0 = Some(0)
    /\ Present("rain")

\* ------------------------------------------------------------------------
\* close() and closePort()
\* ------------------------------------------------------------------------
\* a step in which the host calls Station.close() or ID5001Driver.closePort()
CloseCalled == close_calls' = close_calls + 1

\* a call of close() or closePort() releases a port that is held and leaves
\* everything else about the port as it is; it does not raise
C15_CloseStep ==
    CloseCalled
    => /\ serial_port' = "None"
       /\ nclose' = IF serial_port = "open" THEN nclose + 1 ELSE nclose
       /\ serial_port = "None" => UNCHANGED <<serial_port, nclose, ready>>
       /\ result'.exc = "none"
       /\ op' = "idle"

\* C15: close() is idempotent: on an open connection it releases the port,
\* once; any further close(), on the Station or through closePort, and a
\* close() before open(), changes nothing and does not raise.
C15_CloseIdempotent ==
    /\ [][C15_CloseStep]_vars
    /\ [](nclose <= 1)
    /\ [](close_calls >= 1 => serial_port = "None")

\* close() on the driver's open station, then closePort() twice: the port
\* was released once
C15_Witness ==
    /\ host = "closed"
    /\ station = "None"
    /\ close_calls = 3
    /\ nclose = 1

\* C16: every line send_AT_cmd returns, whether _readline ended on the
\* carriage return or on a timeout after a part of a line, holds no carriage
\* return and neither starts nor ends with whitespace.
C16_LineTrimmed ==
    LineReturned
    => LET text == Chars(response)
       IN  /\ \A i \in 1..Len(text) : text[i] # CR
           /\ text # <<>> => (Head(text) \notin Whitespace /\ LastCh(text) \notin Whitespace)
           /\ ended \in {"eol", "timeout"}

\* a read that timed out after a part of a line, whose trailing blank was
\* trimmed
C16_Witness ==
    /\ LineReturned
    /\ ended = "timeout"
    /\ response # <<>>
    /\ Len(response) < Len(line)

\* ------------------------------------------------------------------------
\* The decoding of the clock and of the barometer
\* ------------------------------------------------------------------------
\* C17: get_time takes the replies yymmdd and hhmmss apart so that each
\* component is its two-digit field, leading zeros included, and maps the
\* year yy to 1900 + yy when yy > 86 and to 2000 + yy otherwise: 99 gives
\* 1999, 87 gives 1987, 86 gives 2086, 10 gives 2010.
C17_ClockDecomposition ==
    ~IsNone(decoded)
    => LET got == Val(decoded)
           c == instr_clock
       IN  /\ got.MM = c.mo /\ got.DD = c.dd
           /\ got.hh = c.hh /\ got.mm = c.mi /\ got.ss = c.ss
           /\ got.year % 100 = c.yy
           /\ c.yy > 86 <=> got.year < 2000
           /\ got.year \in 1987..2086
           /\ c.yy = 99 => got.year = 1999
           /\ c.yy = 87 => got.year = 1987
           /\ c.yy = 86 => got.year = 2086
           /\ c.yy = 10 => got.year = 2010

\* year 86 on the first of January at midnight: every field but the year
\* printed with leading zeros
C17_Witness ==
    /\ ~IsNone(decoded)
    /\ instr_clock = Clock(86, 1, 1, 0, 0, 0)
    /\ Val(decoded).year = 2086

\* C18: the barometer decoder returns None, never zero, for every reply whose
\* four digits are 0000, with and without the M; and a number that is not
\* zero for every well-formed reply whose four digits are not 0000.
C18_BarometerZeroAbsent ==
    ~IsNone(decoded)
    => LET got == Val(decoded)
       IN  /\ got.exc = "none"
           /\ instr_baro.value = 0 => IsNone(got.val)
           /\ instr_baro.value # 0 => (~IsNone(got.val) /\ Val(got.val) # 0)

\* 0000 with the millibar marker has been decoded
C18_Witness ==
    /\ ~IsNone(decoded)
    /\ instr_baro = [value |-> 0, millibars |-> TRUE]
    /\ IsNone(Val(decoded).val)

\* ------------------------------------------------------------------------
\* A rain total that does not decode
\* ------------------------------------------------------------------------
\* the reply to ATRR of the present attempt is in, and does not decode
RainUndecoded == "RR" \in DOMAIN replies /\ IsNone(_decodeRain(replies["RR"]).val)

====
